---- MODULE Spec2Model ----
(***************************************************************************)
(* A model of pyEHR's record wrappers (wrappers.py: Record, PatientRecord, *)
(* ClinicalRecord, ArchetypeInstance) and of the patient operations of     *)
(* DBServices (dbservices/__init__.py).                                    *)
(*                                                                         *)
(*   Spec       the DBServices operations on one patient record and the    *)
(*              patients collection                                        *)
(*   SpecCodec  ArchetypeInstance.to_json and from_json on the values a    *)
(*              caller builds                                              *)
(*   SpecRecords  construction, comparison and to_json of PatientRecord    *)
(*              and ClinicalRecord objects                                 *)
(***************************************************************************)
EXTENDS Integers, Sequences, FiniteSets, TLC

VARIABLES
    now,      \* the latest value time.time() returned
    uuids,    \* how many uuid4() identifiers were generated
    crecs,    \* the ClinicalRecord objects constructed so far, in order
    pat,      \* the PatientRecord object the caller holds (NoRecord: none yet)
    store,    \* the patients collection: a set of documents, one per id
    hides,    \* hide_patient calls made on pat: 0, 1, or 2 for two or more
    last,     \* the last DBServices call: arguments, outcome, state before it
    val,      \* SpecCodec: the value (JSON or tree) the caller has built
    vdepth,   \* SpecCodec: how many containers val is nested in
    cres,     \* SpecCodec: the last to_json / from_json call and its result
    recs,     \* SpecRecords: the record objects the caller holds, in order
    rres,     \* SpecRecords: the last comparison or to_json call on them
    conf,     \* SpecLoader: the arguments of QueryPerformanceTest and of run
    loaders,  \* SpecLoader: the DataLoaderThread processes, by thread_index
    patients, \* SpecLoader: the patients saved, with the records saved for each
    phase     \* SpecLoader: where QueryPerformanceTest.run is

vars == <<now, uuids, crecs, pat, store, hides, last, val, vdepth, cres, recs, rres,
          conf, loaders, patients, phase>>
dbvars == <<crecs, pat, store, hides, last>>
codecvars == <<val, vdepth, cres>>
recvars == <<recs, rres>>
loadervars == <<conf, loaders, patients, phase>>

\* QueryPerformanceTest is not run.
NoLoaders == conf = <<>> /\ loaders = <<>> /\ patients = {} /\ phase = ""

---------------------------------------------------------------------------
(* Bounds *)

MaxTime == 2     \* the clock stops at this reading
MaxStamp == 2    \* timestamps a caller passes are 0..MaxStamp
MaxEhr == 2      \* at most this many ClinicalRecord objects
MaxRecords == 2  \* SpecRecords: at most this many record objects
MaxDepth == 4    \* values are nested at most this deep
MaxPatients == 3 \* SpecLoader: patients_size and matching_instances are at most this
MaxThreads == 3  \* SpecLoader: at most this many DataLoaderThread processes
MaxUuid == 2     \* SpecRenew: new_record_id is called while fewer identifiers exist

---------------------------------------------------------------------------
(* Python values *)

\* None, as a record_id.
None == "None"

\* None, as a timestamp argument (creation_time=None, last_update=None).
NoneT == -1

\* uuid4().hex: the n-th identifier generated. Distinct from one another and
\* from every identifier a caller passes.
uuid4(n) == <<"u1", "u2", "u3", "u4", "u5", "u6", "u7", "u8">>[n]

\* Python truth of a record_id argument: None and '' are false.
TruthyId(record_id) == record_id # None /\ record_id # ""

\* Python truth of a timestamp argument: None and 0 are false.
TruthyTime(t) == t # NoneT /\ t # 0

\* The identifiers and timestamps callers pass.
IdArgs == {None, "", "p1"}
TimeArgs == {NoneT} \cup (0..MaxStamp)

\* The last_update arguments the callers of SpecRecords pass.
UpdateArgs == {NoneT, MaxStamp}

\* time.time(): a reading not before the latest one. Two readings may be equal.
ClockReadings == {t \in now..(now + 1) : t <= MaxTime}

---------------------------------------------------------------------------
(* wrappers.py: construction *)

\* Record.__init__ with last_update kept as it was passed.
Record_init_as_passed(creation_time, last_update, active, record_id, uuid) ==
    [creation_time |-> creation_time,
     last_update   |-> last_update,
     active        |-> active,
     record_id     |-> IF TruthyId(record_id) THEN record_id ELSE uuid]

\* Record.__init__. uuid is the identifier uuid4() returns if it is called.
Record_init(creation_time, last_update, active, record_id, uuid) ==
    [creation_time |-> creation_time,
     last_update   |-> IF TruthyTime(last_update) THEN last_update ELSE creation_time,
     active        |-> active,
     record_id     |-> IF TruthyId(record_id) THEN record_id ELSE uuid]

\* PatientRecord.__init__. t is the reading time.time() returns if it is called.
PatientRecord_init(record_id, ehr_records, creation_time, last_update, active, t, uuid) ==
    [kind |-> "PatientRecord", ehr_records |-> ehr_records]
    @@ Record_init(IF TruthyTime(creation_time) THEN creation_time ELSE t,
                   last_update, active, record_id, uuid)

\* ClinicalRecord.__init__.
ClinicalRecord_init(ehr_data, creation_time, last_update, active, record_id, t, uuid) ==
    [kind |-> "ClinicalRecord", ehr_data |-> ehr_data]
    @@ Record_init(IF TruthyTime(creation_time) THEN creation_time ELSE t,
                   last_update, active, record_id, uuid)

\* No object: the caller has constructed no PatientRecord yet.
NoRecord == [kind |-> "NoRecord"]

---------------------------------------------------------------------------
(* wrappers.py: ArchetypeInstance and its JSON form.                       *)
(*                                                                         *)
(* A value is a string, a number, a list, a dict or an ArchetypeInstance   *)
(* object.  A dict maps every key of Keys to a value or to Absent (the key *)
(* is not in the dict).  A JSON (wire) value holds no ArchetypeInstance.   *)

Keys == {"archetype", "data", "k"}

Absent == [k |-> "absent"]
Str(s) == [k |-> "str", s |-> s]
Num(n) == [k |-> "num", n |-> n]
List(xs) == [k |-> "list", xs |-> xs]
Dict(m) == [k |-> "dict", m |-> m]
EmptyDict == Dict([key \in Keys |-> Absent])

\* ArchetypeInstance.__init__(archetype_class, data)
ArchetypeInstance(archetype_class, data) ==
    [k |-> "ArchetypeInstance", archetype_class |-> archetype_class, data |-> data]

\* A raised exception, and the bound method object the expression x.to_json is.
Raised(e) == [k |-> "raised", e |-> e]
BoundMethod == [k |-> "method"]

IsRaised(v) == v.k = "raised"
IsDict(v) == v.k = "dict"
IsList(v) == v.k = "list"
IsInstance(v) == v.k = "ArchetypeInstance"

\* The values of a dict or list: computing them raised if one of them is a
\* raised exception, and that exception propagates.
DictOrRaise(m) ==
    IF \E key \in Keys : IsRaised(m[key])
    THEN m[CHOOSE key \in Keys : IsRaised(m[key])]
    ELSE Dict(m)

ListOrRaise(xs) ==
    IF \E i \in 1..Len(xs) : IsRaised(xs[i])
    THEN xs[CHOOSE i \in 1..Len(xs) : IsRaised(xs[i])]
    ELSE List(xs)

\* The expression v.to_json, not called: an attribute only ArchetypeInstance has.
getattr_to_json(v) == IF IsInstance(v) THEN BoundMethod ELSE Raised("AttributeError")

RECURSIVE to_json(_), encode_dict_data(_, _), encode_list_data(_, _)

\* ArchetypeInstance.to_json.encode_dict_data(record_data). v is the variable v
\* of the enclosing to_json call (the field of self.data its loop is at), which
\* encode_list_data reads.
encode_dict_data(record_data, v) ==
    DictOrRaise([key \in Keys |->
        LET x == record_data.m[key] IN
        IF x = Absent THEN Absent
        ELSE IF IsInstance(x) THEN to_json(x)
        ELSE IF IsDict(x) THEN encode_dict_data(x, v)
        ELSE IF IsList(x) THEN encode_list_data(x, v)
        ELSE x])

\* ArchetypeInstance.to_json.encode_list_data(record_data): for an element that
\* is an ArchetypeInstance it appends v.to_json, an attribute of the enclosing
\* call's v and not a call.
encode_list_data(record_data, v) ==
    ListOrRaise([i \in 1..Len(record_data.xs) |->
        LET x == record_data.xs[i] IN
        IF IsInstance(x) THEN getattr_to_json(v)
        ELSE IF IsDict(x) THEN encode_dict_data(x, v)
        ELSE IF IsList(x) THEN encode_list_data(x, v)
        ELSE x])

\* ArchetypeInstance.to_json(self)
to_json(self) ==
    LET data == DictOrRaise([key \in Keys |->
            LET v == self.data.m[key] IN
            IF v = Absent THEN Absent
            ELSE IF IsInstance(v) THEN to_json(v)
            ELSE IF IsDict(v) THEN encode_dict_data(v, v)
            ELSE IF IsList(v) THEN encode_list_data(v, v)
            ELSE v])
    IN IF IsRaised(data) THEN data
       ELSE Dict([key \in Keys |->
                CASE key = "archetype" -> self.archetype_class
                  [] key = "data" -> data
                  [] OTHER -> Absent])

\* is_archetype with a type check the code does not make.
is_archetype_typed(dict) ==
    dict.m["archetype"].k = "str" /\ dict.m["data"].k = "dict"

\* ArchetypeInstance.from_json.is_archetype(dict)
is_archetype(dict) == dict.m["archetype"] # Absent /\ dict.m["data"] # Absent

\* The schema with members other than the two required ones allowed.
schema_allow_extra(json_data) ==
    json_data.m["archetype"].k = "str" /\ json_data.m["data"].k = "dict"

\* The schema with any value allowed under 'archetype'.
schema_untyped_tag(json_data) ==
    /\ json_data.m["archetype"] # Absent
    /\ json_data.m["data"].k = "dict"
    /\ \A key \in Keys \ {"archetype", "data"} : json_data.m[key] = Absent

\* Schema({Required('archetype'): str, Required('data'): dict}) accepts json_data:
\* both members with these types, and no other member.
schema_ArchetypeInstance(json_data) ==
    /\ json_data.m["archetype"].k = "str"
    /\ json_data.m["data"].k = "dict"
    /\ \A key \in Keys \ {"archetype", "data"} : json_data.m[key] = Absent

RECURSIVE from_json(_), decode_dict_data(_), decode_list_data(_)

\* ArchetypeInstance.from_json.decode_dict_data(dict_data)
decode_dict_data(dict_data) ==
    DictOrRaise([key \in Keys |->
        LET v == dict_data.m[key] IN
        IF v = Absent THEN Absent
        ELSE IF IsDict(v) THEN (IF is_archetype(v) THEN from_json(v) ELSE decode_dict_data(v))
        ELSE IF IsList(v) THEN decode_list_data(v)
        ELSE v])

\* ArchetypeInstance.from_json.decode_list_data(dict_data)
decode_list_data(dict_data) ==
    ListOrRaise([i \in 1..Len(dict_data.xs) |->
        LET x == dict_data.xs[i] IN
        IF IsDict(x) THEN (IF is_archetype(x) THEN from_json(x) ELSE decode_dict_data(x))
        ELSE IF IsList(x) THEN decode_list_data(x)
        ELSE x])

\* ArchetypeInstance.from_json(json_data), json_data a dict whose strings are
\* byte strings and whose members are not null (what cleanup_json and
\* decode_dict return unchanged).
from_json(json_data) ==
    IF ~schema_ArchetypeInstance(json_data)
    THEN Raised("InvalidJsonStructureError")
    ELSE LET archetype_data == DictOrRaise([key \in Keys |->
                LET v == json_data.m["data"].m[key] IN
                IF v = Absent THEN Absent
                ELSE IF IsDict(v) THEN (IF is_archetype(v) THEN from_json(v)
                                        ELSE decode_dict_data(v))
                ELSE IF IsList(v) THEN decode_list_data(v)
                ELSE v])
         IN IF IsRaised(archetype_data) THEN archetype_data
            ELSE ArchetypeInstance(json_data.m["archetype"], archetype_data)

---------------------------------------------------------------------------
(* wrappers.py: comparison and JSON form of records *)

\* __eq__ without the comparison of the two types.
Record_eq_any_type(self, other) ==
    self.record_id = other.record_id /\ (self.record_id # None /\ other.record_id # None)

\* Record.__eq__(self, other)
Record_eq(self, other) ==
    IF self.kind = other.kind
    THEN self.record_id = other.record_id
            /\ (self.record_id # None /\ other.record_id # None)
    ELSE FALSE

\* Record.__ne__(self, other)
Record_ne(self, other) == ~Record_eq(self, other)

\* ClinicalRecord.to_json(self): a dict with the members named in members
\* (record_id is None when it is no member), or the exception
\* self.ehr_data.to_json() raised.
ClinicalRecord_to_json(self) ==
    LET ehr_data == to_json(self.ehr_data) IN
    IF IsRaised(ehr_data) THEN ehr_data
    ELSE [k |-> "dict",
          members |-> {"creation_time", "last_update", "active", "ehr_data"}
                         \cup (IF TruthyId(self.record_id) THEN {"record_id"} ELSE {}),
          creation_time |-> self.creation_time,
          last_update |-> self.last_update,
          active |-> self.active,
          record_id |-> IF TruthyId(self.record_id) THEN self.record_id ELSE None,
          ehr_data |-> ehr_data]

\* PatientRecord.to_json(self)
PatientRecord_to_json(self) ==
    LET ehr_records == [i \in 1..Len(self.ehr_records) |->
                            ClinicalRecord_to_json(self.ehr_records[i])]
    IN IF \E i \in 1..Len(ehr_records) : IsRaised(ehr_records[i])
       THEN ehr_records[CHOOSE i \in 1..Len(ehr_records) : IsRaised(ehr_records[i])]
       ELSE [k |-> "dict",
             members |-> {"record_id", "creation_time", "last_update", "active",
                          "ehr_records"},
             record_id |-> self.record_id,
             creation_time |-> self.creation_time,
             last_update |-> self.last_update,
             active |-> self.active,
             ehr_records |-> ehr_records]

\* The JSON form of a record maps every key of RecordKeys to a value or to
\* Absent.
RecordKeys == {"record_id", "creation_time", "last_update", "active",
               "ehr_records", "ehr_data", "k"}

\* A float and a bool, as JSON values.
Float(f) == [k |-> "float", f |-> f]
Bool(b) == [k |-> "bool", b |-> b]

\* What a call returned, when it raised nothing.
Returned(v) == [k |-> "returned", v |-> v]

\* A dict literal with the given members.
RecordJson(record_id, creation_time, last_update, active, ehr_records, ehr_data, k) ==
    [key \in RecordKeys |->
        CASE key = "record_id" -> record_id
          [] key = "creation_time" -> creation_time
          [] key = "last_update" -> last_update
          [] key = "active" -> active
          [] key = "ehr_records" -> ehr_records
          [] key = "ehr_data" -> ehr_data
          [] OTHER -> k]

\* A member the Schema names without Required: absent, or of the type named.
Optional(json_data, key, type) == json_data[key] = Absent \/ json_data[key].k = type

\* The Schema of ClinicalRecord.from_json accepts json_data.
schema_ClinicalRecord(json_data) ==
    /\ json_data["ehr_data"].k = "dict"
    /\ Optional(json_data, "creation_time", "float")
    /\ Optional(json_data, "last_update", "float")
    /\ Optional(json_data, "active", "bool")
    /\ Optional(json_data, "record_id", "str")
    /\ json_data["ehr_records"] = Absent /\ json_data["k"] = Absent

\* The Schema of PatientRecord.from_json accepts json_data.
schema_PatientRecord(json_data) ==
    /\ json_data["ehr_records"].k = "list"
    /\ Optional(json_data, "creation_time", "float")
    /\ Optional(json_data, "last_update", "float")
    /\ Optional(json_data, "active", "bool")
    /\ Optional(json_data, "record_id", "str")
    /\ json_data["ehr_data"] = Absent /\ json_data["k"] = Absent

\* The keyword arguments **json_data passes: a member that is absent leaves
\* the parameter at its default.
kw_time(json_data, key) == IF json_data[key] = Absent THEN NoneT ELSE json_data[key].f
kw_active(json_data) == IF json_data["active"] = Absent THEN TRUE ELSE json_data["active"].b
kw_record_id(json_data) ==
    IF json_data["record_id"] = Absent THEN None ELSE json_data["record_id"].s

\* ClinicalRecord.from_json(json_data)
ClinicalRecord_from_json(json_data, t, uuid) ==
    IF ~schema_ClinicalRecord(json_data)
    THEN Raised("InvalidJsonStructureError")
    ELSE LET ehr_data == from_json(json_data["ehr_data"]) IN
         IF IsRaised(ehr_data) THEN ehr_data
         ELSE Returned(ClinicalRecord_init(ehr_data, kw_time(json_data, "creation_time"),
                                           kw_time(json_data, "last_update"),
                                           kw_active(json_data), kw_record_id(json_data),
                                           t, uuid))

\* How many of the first n elements of xs carry no id a constructor keeps: the
\* identifiers uuid4() generates while they are decoded.
NoIdUpTo(xs, n) == Cardinality({i \in 1..n : ~TruthyId(kw_record_id(xs[i]))})

\* PatientRecord.from_json(json_data). ts[i] is the reading time.time() returns
\* in the i-th constructor that is called, and base the number of identifiers
\* uuid4() generated before the call.
PatientRecord_from_json(json_data, ts, base) ==
    IF ~schema_PatientRecord(json_data)
    THEN Raised("InvalidJsonStructureError")
    ELSE LET xs == json_data["ehr_records"].xs
             ehr_records == [i \in 1..Len(xs) |->
                                ClinicalRecord_from_json(xs[i], ts[i],
                                                         uuid4(base + NoIdUpTo(xs, i)))]
         IN IF \E i \in 1..Len(xs) : IsRaised(ehr_records[i])
            THEN ehr_records[CHOOSE i \in 1..Len(xs) :
                                /\ IsRaised(ehr_records[i])
                                /\ \A j \in 1..(i - 1) : ~IsRaised(ehr_records[j])]
            ELSE IF json_data["record_id"] = Absent
            THEN Raised("TypeError")
            ELSE Returned(PatientRecord_init(kw_record_id(json_data),
                                             [i \in 1..Len(xs) |-> ehr_records[i].v],
                                             kw_time(json_data, "creation_time"),
                                             kw_time(json_data, "last_update"),
                                             kw_active(json_data),
                                             ts[Len(xs) + 1],
                                             uuid4(base + NoIdUpTo(xs, Len(xs)) + 1)))

\* The calls made on the records of SpecRecords: what was called, and the result
\* for every record (to_json) or every pair of records (==, !=).
RecordResult(op, out) == [op |-> op, out |-> out]
NoRecordResult == RecordResult("", <<>>)

\* A codec call: what was called, on what, what it returned or raised, and,
\* when arg is itself the result of the inverse call, that call's argument.
Result(op, arg, out, orig) == [op |-> op, arg |-> arg, out |-> out, orig |-> orig]
NoResult == Result("", Absent, Absent, Absent)

---------------------------------------------------------------------------
(* The storage collaborator (MongoDriver) on the patients collection.  A   *)
(* document is [id, active, last_update]; the collection holds at most one *)
(* document per id.                                                        *)

\* The documents the collection may hold before the first call: written by
\* earlier runs, under the identifiers callers pass.
StoredIds == {"p1", "p2"}
InitialStores ==
    {s \in SUBSET [id : StoredIds, active : BOOLEAN, last_update : {1}] :
        \A d, e \in s : d.id = e.id => d = e}

Ids(s) == {d.id : d \in s}

\* driver.add_record(document): stores the document under a new id, returns the id.
add_record(s, document, new_id) == s \cup {[document EXCEPT !.id = new_id]}

\* driver.get_all_records()
get_all_records(s) == s

\* driver.get_records_by_query({'active': True})
get_records_by_query(s, active) == {d \in s : d.active = active}

\* driver.get_record_by_id(record_id): the documents with that id (none: not found)
get_record_by_id(s, record_id) == {d \in s : d.id = record_id}

\* driver.update_record(record_id, {'$set': {'active': False, 'last_update': t}}):
\* an id the collection does not hold changes nothing.
update_record(s, record_id, active, t) ==
    {IF d.id = record_id THEN [d EXCEPT !.active = active, !.last_update = t] ELSE d : d \in s}

\* driver.delete_record(record_id): an id the collection does not hold changes nothing.
delete_record(s, record_id) == {d \in s : d.id # record_id}

\* record._to_document()
to_document(record) ==
    [id |-> record.record_id, active |-> record.active, last_update |-> record.last_update]

---------------------------------------------------------------------------
(* dbservices/__init__.py: DBServices *)

\* What a call left behind. raised: "" or the exception's name; ret: what the
\* call returned ("None", "record": the object passed in, "docs": documents).
Outcome(op, arg, raised, ret, docs, t) ==
    [op |-> op, arg |-> arg, raised |-> raised, ret |-> ret, docs |-> docs, t |-> t,
     before |-> pat, store_before |-> store]

\* What a constructor call left behind: the timestamps it was passed (NoneT:
\* none) and the reading of time.time() it took (NoneT: none).
Constructed_with(op, creation_time, last_update, t) ==
    [op |-> op, creation_time |-> creation_time, last_update |-> last_update, t |-> t,
     before |-> NoRecord, store_before |-> store]

NoCall == [op |-> "", arg |-> FALSE, raised |-> "", ret |-> "None", docs |-> {}, t |-> 0,
           before |-> NoRecord, store_before |-> {}]

\* DBServices.save_patient(patient_record)
save_patient ==
    /\ pat # NoRecord
    /\ IF pat.record_id = None
       THEN /\ uuids' = uuids + 1
            /\ store' = add_record(store, to_document(pat), uuid4(uuids + 1))
            /\ pat' = [pat EXCEPT !.record_id = uuid4(uuids + 1)]
            /\ last' = Outcome("save_patient", FALSE, "", "record", {}, now)
       ELSE /\ last' = Outcome("save_patient", FALSE, "", "None", {}, now)
            /\ UNCHANGED <<uuids, store, pat>>
    /\ UNCHANGED <<now, crecs, hides>>
    /\ UNCHANGED <<codecvars, recvars, loadervars>>

\* DBServices.get_patients(active_records_only): with active_records_only the
\* call self._get_active_records() passes no driver to a method that takes one.
get_patients(active_records_only) ==
    /\ IF ~active_records_only
       THEN last' = Outcome("get_patients", active_records_only, "", "docs",
                            get_all_records(store), now)
       ELSE last' = Outcome("get_patients", active_records_only, "TypeError", "None", {}, now)
    /\ UNCHANGED <<now, uuids, crecs, pat, store, hides, codecvars, recvars, loadervars>>

\* DBServices.get_patient(patient_id)
get_patient(patient_id) ==
    /\ last' = Outcome("get_patient", FALSE, "", "docs", get_record_by_id(store, patient_id), now)
    /\ UNCHANGED <<now, uuids, crecs, pat, store, hides, codecvars, recvars, loadervars>>

\* _hide_record that hides the owned clinical records as well.
hide_record_cascade(record, t) ==
    [record EXCEPT !.active = FALSE, !.last_update = t,
                   !.ehr_records = [i \in DOMAIN @ |-> [@[i] EXCEPT !.active = FALSE]]]

\* _hide_record without the refresh of last_update.
hide_record_stale(record, t) == [record EXCEPT !.active = FALSE]

\* DBServices._update_record_timestamp / _hide_record(record, collection); t is
\* the reading of time.time().
_hide_record(record, t) == [record EXCEPT !.active = FALSE, !.last_update = t]

\* DBServices.hide_patient(patient)
hide_patient ==
    /\ pat # NoRecord
    /\ \E t \in ClockReadings :
        /\ now' = t
        /\ store' = update_record(store, pat.record_id, FALSE, t)
        /\ pat' = _hide_record(pat, t)
        /\ last' = Outcome("hide_patient", FALSE, "", "record", {}, t)
    /\ hides' = IF hides = 0 THEN 1 ELSE 2
    /\ UNCHANGED <<uuids, crecs, codecvars, recvars, loadervars>>

\* The condition under which delete_patient raises CascadeDeleteError.
cascade_guard(patient, cascade_delete) == cascade_delete /\ Len(patient.ehr_records) > 0

\* DBServices.delete_patient(patient, cascade_delete)
delete_patient(cascade_delete) ==
    /\ pat # NoRecord
    /\ IF cascade_guard(pat, cascade_delete)
       THEN /\ last' = Outcome("delete_patient", cascade_delete, "CascadeDeleteError", "None", {}, now)
            /\ UNCHANGED store
       ELSE /\ store' = delete_record(store, pat.record_id)
            /\ last' = Outcome("delete_patient", cascade_delete, "", "None", {}, now)
    /\ UNCHANGED <<now, uuids, crecs, pat, hides, codecvars, recvars, loadervars>>

---------------------------------------------------------------------------
(* The caller: constructs the records it passes to DBServices. *)

\* The payload of the clinical records of Spec.
BloodPressure ==
    ArchetypeInstance(Str("blood_pressure"),
                      Dict([key \in Keys |-> IF key = "k" THEN Num(120) ELSE Absent]))

\* ClinicalRecord(arch)
NewClinicalRecord ==
    /\ pat = NoRecord
    /\ Len(crecs) < MaxEhr
    /\ \E t \in ClockReadings :
        /\ now' = t
        /\ crecs' = Append(crecs, ClinicalRecord_init(BloodPressure, NoneT, NoneT, TRUE, None,
                                                     t, uuid4(uuids + 1)))
    /\ uuids' = uuids + 1
    /\ last' = NoCall
    /\ UNCHANGED <<pat, store, hides, codecvars, recvars, loadervars>>

\* PatientRecord(record_id, ehr_records, creation_time, last_update, active),
\* owning the first n of the clinical records constructed so far: the record
\* the DBServices calls that follow are made on.
NewPatientRecord ==
    \E record_id \in IdArgs, n \in 0..Len(crecs), creation_time \in TimeArgs,
       last_update \in TimeArgs, active \in BOOLEAN, t \in ClockReadings :
        /\ pat = NoRecord
        /\ pat' = PatientRecord_init(record_id, SubSeq(crecs, 1, n), creation_time,
                                     last_update, active, t, uuid4(uuids + 1))
        /\ now' = IF TruthyTime(creation_time) THEN now ELSE t
        /\ uuids' = IF TruthyId(record_id) THEN uuids ELSE uuids + 1
        /\ last' = Constructed_with("PatientRecord", creation_time, last_update,
                                    IF TruthyTime(creation_time) THEN NoneT ELSE t)
        /\ UNCHANGED <<crecs, store, hides, codecvars, recvars, loadervars>>

\* The JSON forms of a patient record the caller decodes: with the id and an
\* empty list, and with either timestamp, both or none.
PatientJsons ==
    {RecordJson(Str("p1"), creation_time, last_update, Absent, List(<<>>), Absent, Absent) :
        creation_time \in {Absent, Float(MaxStamp)}, last_update \in {Absent, Float(1)}}

\* PatientRecord.from_json(json_data): the record the DBServices calls that
\* follow are made on.
DecodePatientRecord ==
    \E json_data \in PatientJsons, t \in ClockReadings :
        /\ pat = NoRecord
        /\ pat' = PatientRecord_from_json(json_data, [i \in 1..(MaxEhr + 1) |-> t], uuids).v
        /\ now' = IF json_data["creation_time"] = Absent THEN t ELSE now
        /\ last' = Constructed_with("PatientRecord.from_json",
                                    kw_time(json_data, "creation_time"),
                                    kw_time(json_data, "last_update"),
                                    IF json_data["creation_time"] = Absent THEN t ELSE NoneT)
        /\ UNCHANGED <<uuids, crecs, store, hides, codecvars, recvars, loadervars>>

---------------------------------------------------------------------------

Init ==
    /\ now = 0
    /\ uuids = 0
    /\ crecs = <<>>
    /\ pat = NoRecord
    /\ store \in InitialStores
    /\ hides = 0
    /\ last = NoCall
    /\ val = Absent /\ vdepth = 0 /\ cres = NoResult
    /\ recs = <<>> /\ rres = NoRecordResult
    /\ NoLoaders

Next ==
    \/ NewClinicalRecord
    \/ NewPatientRecord
    \/ DecodePatientRecord
    \/ save_patient
    \/ \E a \in BOOLEAN : get_patients(a)
    \/ \E i \in StoredIds : get_patient(i)
    \/ hide_patient
    \/ \E c \in BOOLEAN : delete_patient(c)

Spec == Init /\ [][Next]_vars

---------------------------------------------------------------------------
(* SpecCodec: a caller builds a value from the inside out, as the public   *)
(* constructor and dict and list literals allow, and calls the codec on it.*)

Leaves == {Str("a"), Num(1), EmptyDict}

\* The dicts that hold v under one key: alone, or beside the other reserved
\* key with a string, an empty string or a number under it, or beside a third
\* member.
DictsHolding(v) ==
    LET d(archetype, data, k) ==
            Dict([key \in Keys |-> CASE key = "archetype" -> archetype
                                     [] key = "data" -> data
                                     [] OTHER -> k])
    IN {d(Absent, Absent, v), d(v, Absent, Absent), d(Absent, v, Absent),
        d(Str("a"), v, Absent), d(Str(""), v, Absent), d(Num(1), v, Absent),
        d(Str("a"), v, Num(1))}

ListsHolding(v) == {List(<<v>>), List(<<Num(1), v>>)}

RECURSIVE IsJson(_)
\* v holds no ArchetypeInstance: it is a JSON value.
IsJson(v) ==
    IF IsInstance(v) THEN FALSE
    ELSE IF IsDict(v) THEN \A key \in Keys : IF v.m[key] = Absent THEN TRUE ELSE IsJson(v.m[key])
    ELSE IF IsList(v) THEN \A i \in 1..Len(v.xs) : IsJson(v.xs[i])
    ELSE TRUE

BuildDict ==
    /\ vdepth < MaxDepth
    /\ val' \in DictsHolding(val)
    /\ vdepth' = vdepth + 1
    /\ cres' = NoResult
    /\ UNCHANGED <<now, uuids, dbvars, recvars, loadervars>>

BuildList ==
    /\ vdepth < MaxDepth
    /\ val' \in ListsHolding(val)
    /\ vdepth' = vdepth + 1
    /\ cres' = NoResult
    /\ UNCHANGED <<now, uuids, dbvars, recvars, loadervars>>

\* ArchetypeInstance(archetype_class, data) on a dict the caller built
BuildInstance ==
    /\ vdepth < MaxDepth
    /\ IsDict(val)
    /\ \E archetype_class \in {Str("a"), Str(""), Num(1)} :
          val' = ArchetypeInstance(archetype_class, val)
    /\ vdepth' = vdepth + 1
    /\ cres' = NoResult
    /\ UNCHANGED <<now, uuids, dbvars, recvars, loadervars>>

\* ArchetypeInstance.from_json(val)
CallFromJson ==
    /\ IsDict(val) /\ IsJson(val)
    /\ cres' = Result("from_json", val, from_json(val), Absent)
    /\ UNCHANGED <<val, vdepth, now, uuids, dbvars, recvars, loadervars>>

\* val.to_json()
CallToJson ==
    /\ IsInstance(val)
    /\ cres' = Result("to_json", val, to_json(val), Absent)
    /\ UNCHANGED <<val, vdepth, now, uuids, dbvars, recvars, loadervars>>

\* ArchetypeInstance.from_json(val).to_json(): the second call
EncodeDecoded ==
    /\ cres.op = "from_json" /\ cres.orig = Absent /\ ~IsRaised(cres.out)
    /\ cres' = Result("to_json", cres.out, to_json(cres.out), cres.arg)
    /\ UNCHANGED <<val, vdepth, now, uuids, dbvars, recvars, loadervars>>

\* ArchetypeInstance.from_json(val.to_json()): the second call
DecodeEncoded ==
    /\ cres.op = "to_json" /\ cres.orig = Absent /\ ~IsRaised(cres.out)
    /\ cres' = Result("from_json", cres.out, from_json(cres.out), cres.arg)
    /\ UNCHANGED <<val, vdepth, now, uuids, dbvars, recvars, loadervars>>

InitCodec ==
    /\ val \in Leaves /\ vdepth = 0 /\ cres = NoResult
    /\ now = 0 /\ uuids = 0 /\ crecs = <<>> /\ pat = NoRecord /\ store = {}
    /\ hides = 0 /\ last = NoCall
    /\ recs = <<>> /\ rres = NoRecordResult
    /\ NoLoaders

NextCodec ==
    \/ BuildDict
    \/ BuildList
    \/ BuildInstance
    \/ CallFromJson
    \/ CallToJson
    \/ EncodeDecoded
    \/ DecodeEncoded

SpecCodec == InitCodec /\ [][NextCodec]_vars

---------------------------------------------------------------------------
(* SpecRecords: a caller constructs records with any of the arguments the  *)
(* constructors take, compares them and encodes them.                      *)

\* An ArchetypeInstance that holds another in a list.
InstanceList ==
    ArchetypeInstance(Str("a"),
        Dict([key \in Keys |-> IF key = "k" THEN List(<<ArchetypeInstance(Str("a"), EmptyDict)>>)
                               ELSE Absent]))

Payloads == {BloodPressure, InstanceList}

IsClinical(r) == r.kind = "ClinicalRecord"

\* ClinicalRecord(ehr_data, last_update=last_update, active=active,
\*                record_id=record_id)
ConstructClinicalRecord ==
    /\ Len(recs) < MaxRecords
    /\ \E ehr_data \in Payloads, record_id \in IdArgs, last_update \in UpdateArgs,
          active \in BOOLEAN, t \in ClockReadings :
        /\ recs' = Append(recs, ClinicalRecord_init(ehr_data, NoneT, last_update,
                                                    active, record_id, t, uuid4(uuids + 1)))
        /\ now' = t
        /\ uuids' = IF TruthyId(record_id) THEN uuids ELSE uuids + 1
    /\ rres' = NoRecordResult
    /\ UNCHANGED <<dbvars, codecvars, loadervars>>

\* PatientRecord(record_id, ehr_records, last_update=last_update, active=active),
\* owning the first n of the ClinicalRecord objects the caller holds.
ConstructPatientRecord ==
    /\ Len(recs) < MaxRecords
    /\ \E record_id \in IdArgs, n \in 0..Len(SelectSeq(recs, IsClinical)),
          last_update \in UpdateArgs, active \in BOOLEAN, t \in ClockReadings :
        /\ recs' = Append(recs, PatientRecord_init(record_id,
                                    SubSeq(SelectSeq(recs, IsClinical), 1, n),
                                    NoneT, last_update, active, t, uuid4(uuids + 1)))
        /\ now' = t
        /\ uuids' = IF TruthyId(record_id) THEN uuids ELSE uuids + 1
    /\ rres' = NoRecordResult
    /\ UNCHANGED <<dbvars, codecvars, loadervars>>

\* a == b and a != b, for every a and b the caller holds
CompareRecords ==
    /\ recs # <<>>
    /\ rres' = RecordResult("eq",
                  [i \in 1..Len(recs) |-> [j \in 1..Len(recs) |->
                      [eq |-> Record_eq(recs[i], recs[j]),
                       ne |-> Record_ne(recs[i], recs[j])]]])
    /\ UNCHANGED <<now, uuids, recs, dbvars, codecvars, loadervars>>

\* r.to_json(), for every r the caller holds
EncodeRecords ==
    /\ recs # <<>>
    /\ rres' = RecordResult("to_json",
                  [i \in 1..Len(recs) |->
                      IF IsClinical(recs[i]) THEN ClinicalRecord_to_json(recs[i])
                      ELSE PatientRecord_to_json(recs[i])])
    /\ UNCHANGED <<now, uuids, recs, dbvars, codecvars, loadervars>>

InitRecords ==
    /\ now = 0 /\ uuids = 0
    /\ recs = <<>> /\ rres = NoRecordResult
    /\ NoLoaders
    /\ crecs = <<>> /\ pat = NoRecord /\ store = {} /\ hides = 0 /\ last = NoCall
    /\ val = Absent /\ vdepth = 0 /\ cres = NoResult

NextRecords ==
    \/ ConstructClinicalRecord
    \/ ConstructPatientRecord
    \/ CompareRecords
    \/ EncodeRecords

SpecRecords == InitRecords /\ [][NextRecords]_vars

---------------------------------------------------------------------------
(* SpecRenew: a caller constructs records and calls new_record_id on them. *)

\* new_record_id that keeps the id.
new_record_id_kept(self, uuid) == self

\* Record.new_record_id(self). uuid is the identifier uuid4() returns.
Record_new_record_id(self, uuid) == [self EXCEPT !.record_id = uuid]

\* PatientRecord.new_record_id(self): pass
PatientRecord_new_record_id(self, uuid) == self

\* ClinicalRecord.new_record_id(self): super(ClinicalRecord, self).new_record_id()
ClinicalRecord_new_record_id(self, uuid) == Record_new_record_id(self, uuid)

\* recs[i].new_record_id()
RenewRecordId ==
    /\ uuids < MaxUuid
    /\ \E i \in 1..Len(recs) :
        /\ recs' = [recs EXCEPT ![i] =
                        IF IsClinical(recs[i])
                        THEN ClinicalRecord_new_record_id(recs[i], uuid4(uuids + 1))
                        ELSE PatientRecord_new_record_id(recs[i], uuid4(uuids + 1))]
        /\ uuids' = IF IsClinical(recs[i]) THEN uuids + 1 ELSE uuids
        /\ rres' = RecordResult("new_record_id", <<[i |-> i, before |-> recs[i]]>>)
    /\ UNCHANGED <<now, dbvars, codecvars, loadervars>>

NextRenew ==
    \/ ConstructClinicalRecord
    \/ ConstructPatientRecord
    \/ RenewRecordId

SpecRenew == InitRecords /\ [][NextRenew]_vars

---------------------------------------------------------------------------
(* SpecWire: a caller builds the JSON form of a patient record member by   *)
(* member and calls PatientRecord.from_json on it.                         *)

\* The JSON form of BloodPressure.
BloodPressureJson == to_json(BloodPressure)

\* The JSON forms of clinical records a caller puts in the list: with the
\* payload only, with every member, without the payload, with an ill-shaped
\* dict as the payload, with an int timestamp.
ClinicalJsons ==
    {RecordJson(Absent, Absent, Absent, Absent, Absent, BloodPressureJson, Absent),
     RecordJson(Str("c1"), Float(2), Float(1), Bool(FALSE), Absent, BloodPressureJson, Absent),
     RecordJson(Str("c1"), Absent, Absent, Absent, Absent, Absent, Absent),
     RecordJson(Absent, Absent, Absent, Absent, Absent, EmptyDict, Absent),
     RecordJson(Absent, Num(1), Absent, Absent, Absent, BloodPressureJson, Absent)}

\* The values a caller gives a member of the patient's JSON form.
MemberValues(key) ==
    CASE key = "record_id" -> {Str("p1"), Str(""), Num(1)}
      [] key = "creation_time" -> {Float(2), Str("a")}
      [] key = "last_update" -> {Float(1), Num(1)}
      [] key = "active" -> {Bool(FALSE), Str("a")}
      [] key = "ehr_records" -> {List(<<>>), Str("a")}
      [] key = "ehr_data" -> {}
      [] OTHER -> {Num(1)}

\* json_data[key] = value
SetMember ==
    /\ cres = NoResult
    /\ \E key \in RecordKeys :
        /\ val[key] = Absent
        /\ \E value \in MemberValues(key) : val' = [val EXCEPT ![key] = value]
    /\ UNCHANGED <<cres, vdepth, now, uuids, dbvars, recvars, loadervars>>

\* json_data['ehr_records'].append(ehr)
AppendClinicalJson ==
    /\ cres = NoResult
    /\ IsList(val["ehr_records"])
    /\ Len(val["ehr_records"].xs) < MaxEhr
    /\ \E ehr \in ClinicalJsons :
          val' = [val EXCEPT !["ehr_records"] = List(Append(val["ehr_records"].xs, ehr))]
    /\ UNCHANGED <<cres, vdepth, now, uuids, dbvars, recvars, loadervars>>

\* The readings of time.time() during one call: none before the latest one,
\* none before the one it follows.
ClockReadingSeqs ==
    {ts \in [1..(MaxEhr + 1) -> ClockReadings] : \A i \in 1..MaxEhr : ts[i] <= ts[i + 1]}

\* How many constructors PatientRecord.from_json(json_data) calls: one per
\* element decoded before the first that raises, and PatientRecord's if none
\* raises.
Constructed(json_data) ==
    IF ~schema_PatientRecord(json_data) THEN 0
    ELSE LET xs == json_data["ehr_records"].xs
             ok(i) == ~IsRaised(ClinicalRecord_from_json(xs[i], 0, ""))
         IN IF \A i \in 1..Len(xs) : ok(i) THEN Len(xs) + 1
            ELSE (CHOOSE i \in 1..Len(xs) : ~ok(i) /\ \A j \in 1..(i - 1) : ok(j)) - 1

\* How many identifiers uuid4() generates during PatientRecord.from_json(json_data).
Generated(json_data, out) ==
    LET n == Constructed(json_data) IN
    IF n = 0 THEN 0
    ELSE LET xs == json_data["ehr_records"].xs IN
         IF n <= Len(xs) THEN NoIdUpTo(xs, n)
         ELSE NoIdUpTo(xs, Len(xs))
              + (IF ~IsRaised(out) /\ ~TruthyId(kw_record_id(json_data)) THEN 1 ELSE 0)

\* PatientRecord.from_json(val), the one call of a run
CallPatientFromJson ==
    /\ cres = NoResult
    /\ \E ts \in ClockReadingSeqs :
        LET out == PatientRecord_from_json(val, ts, uuids) IN
        /\ cres' = Result("PatientRecord.from_json", val, out, Absent)
        /\ now' = IF Constructed(val) = 0 THEN now ELSE ts[Constructed(val)]
        /\ uuids' = uuids + Generated(val, out)
    /\ UNCHANGED <<val, vdepth, dbvars, recvars, loadervars>>

InitWire ==
    /\ val = RecordJson(Absent, Absent, Absent, Absent, Absent, Absent, Absent)
    /\ vdepth = 0 /\ cres = NoResult
    /\ now = 0 /\ uuids = 0 /\ crecs = <<>> /\ pat = NoRecord /\ store = {}
    /\ hides = 0 /\ last = NoCall
    /\ recs = <<>> /\ rres = NoRecordResult
    /\ NoLoaders

NextWire ==
    \/ SetMember
    \/ AppendClinicalJson
    \/ CallPatientFromJson

SpecWire == InitWire /\ [][NextWire]_vars

---------------------------------------------------------------------------
(* SpecLoader: test_query_performance.py.  QueryPerformanceTest.run on a   *)
(* clean store: build_dataset starts the DataLoaderThread processes, which *)
(* run concurrently, one iteration of the loop of run at a time; when they *)
(* have ended the queries are executed and the patient count is asserted.  *)
(* The DBServices and QueryManager of the test are not in the sources: a   *)
(* patient is found once it is saved, and the patient count query returns  *)
(* the patients a matching blood_pressure record was saved for.            *)

\* build_dataset._get_instances_in_thread(instances, threads); / is the integer
\* division of Python 2.
_get_instances_in_thread(instances, threads) ==
    IF threads > instances THEN <<instances>>
    ELSE LET mod == instances % threads IN
         IF mod = 0
         THEN [i \in 1..(instances \div threads) |-> instances \div threads]
         ELSE [i \in 1..(instances \div threads) |->
                  IF i = 1 THEN (instances \div threads) + mod ELSE instances \div threads]

\* matching_count = parts[i], or 0 on IndexError
matching_count(parts, i) == IF i + 1 <= Len(parts) THEN parts[i + 1] ELSE 0

\* DataLoaderThread.__init__: x is the loop variable of run, the patient the
\* process is at.
DataLoaderThread(thread_index, matching_instances) ==
    [thread_index |-> thread_index, matching_counter |-> matching_instances,
     assigned |-> matching_instances, x |-> conf.start_patient_id]

\* The patient document 'PATIENT_%05d' % x and its records: how many records
\* were saved for it, whether the matching blood_pressure record is one of
\* them, and the thread_index of the process that saved it.
Patient(x, ehrs, match, by) == [x |-> x, ehrs |-> ehrs, match |-> match, by |-> by]

\* QueryPerformanceTest.build_dataset(patients, ehrs, threads), up to t.start()
build_dataset ==
    /\ phase = "run"
    /\ LET parts == _get_instances_in_thread(conf.matching_instances, conf.threads) IN
       IF \E i \in 0..(conf.threads - 1) : matching_count(parts, i) > conf.patients_size
       THEN /\ phase' = "ValueError"
            /\ UNCHANGED loaders
       ELSE /\ loaders' = [i \in 0..(conf.threads - 1) |->
                              DataLoaderThread(i, matching_count(parts, i))]
            /\ phase' = "build_dataset"
    /\ UNCHANGED <<conf, patients, now, uuids, dbvars, codecvars, recvars>>

\* DataLoaderThread.run: one iteration of `for x in xrange(...)` in process i
DataLoaderThread_run(i) ==
    /\ phase = "build_dataset"
    /\ i \in DOMAIN loaders
    /\ loaders[i].x < conf.start_patient_id + conf.patients_size
    /\ LET self == loaders[i]
           x == self.x
           found == {p \in patients : p.x = x}
           create_match == found = {}
           counter == IF create_match THEN self.matching_counter
                      ELSE self.matching_counter - 1
           saved == IF create_match THEN 0 ELSE (CHOOSE p \in found : TRUE).ehrs
           had_match == \E p \in found : p.match
           match == counter > 0 /\ create_match
           num_rec == (conf.ehrs_size - saved) - (IF match THEN 1 ELSE 0)
           crecs_len == (IF match THEN 1 ELSE 0) + (IF num_rec > 0 THEN num_rec ELSE 0)
       IN IF x % conf.threads = self.thread_index
          THEN /\ patients' = (patients \ found)
                                  \cup {Patient(x, saved + crecs_len, had_match \/ match,
                                                IF create_match THEN i
                                                ELSE (CHOOSE p \in found : TRUE).by)}
               /\ loaders' = [loaders EXCEPT
                                 ![i].matching_counter = IF match THEN counter - 1 ELSE counter,
                                 ![i].x = x + 1]
          ELSE /\ loaders' = [loaders EXCEPT ![i].x = x + 1]
               /\ UNCHANGED patients
    /\ UNCHANGED <<conf, phase, now, uuids, dbvars, codecvars, recvars>>

\* The patients the patient count query returns.
patient_count_results == {p.x : p \in {q \in patients : q.match}}

\* QueryPerformanceTest.run, after t.join(): the queries and the assertion
run_assert ==
    /\ phase = "build_dataset"
    /\ \A i \in 0..(conf.threads - 1) :
          loaders[i].x = conf.start_patient_id + conf.patients_size
    /\ phase' = IF Cardinality(patient_count_results) = conf.matching_instances
                THEN "returned" ELSE "AssertionError"
    /\ UNCHANGED <<conf, loaders, patients, now, uuids, dbvars, codecvars, recvars>>

InitLoader ==
    /\ conf \in [patients_size : 0..MaxPatients, ehrs_size : 0..MaxEhr,
                  threads : 1..MaxThreads, matching_instances : 0..MaxPatients,
                  start_patient_id : 0..1]
    /\ loaders = <<>> /\ patients = {} /\ phase = "run"
    /\ now = 0 /\ uuids = 0 /\ crecs = <<>> /\ pat = NoRecord /\ store = {}
    /\ hides = 0 /\ last = NoCall
    /\ val = Absent /\ vdepth = 0 /\ cres = NoResult
    /\ recs = <<>> /\ rres = NoRecordResult

NextLoader ==
    \/ build_dataset
    \/ \E i \in 0..(MaxThreads - 1) : DataLoaderThread_run(i)
    \/ run_assert

SpecLoader == InitLoader /\ [][NextLoader]_vars

---------------------------------------------------------------------------
(* Claims on Spec *)

\* C1: delete_patient on a PatientRecord that owns clinical records, called
\* without cascade, raises CascadeDeleteError, deletes nothing and leaves the
\* record as it was; the error is raised in that case only.
C1_GuardWithoutCascade ==
    last.op = "delete_patient" =>
        /\ (last.raised = "CascadeDeleteError")
              <=> (Len(last.before.ehr_records) > 0 /\ ~last.arg)
        /\ (Len(last.before.ehr_records) > 0 /\ ~last.arg)
              => (store = last.store_before /\ pat = last.before)

\* C2: save_patient moves a constructed record from unsaved to active: a record
\* no document is stored for gets exactly one document, under the id the record
\* then carries, and is returned; a record already stored is left alone, and so
\* is the collection.
C2_SavePersistsUnsaved ==
    last.op = "save_patient" =>
        IF last.before.record_id \in Ids(last.store_before)
        THEN store = last.store_before /\ pat = last.before
        ELSE /\ last.ret = "record"
             /\ Cardinality(store) = Cardinality(last.store_before) + 1
             /\ last.store_before \subseteq store
             /\ pat.record_id \in Ids(store)

C4_GetPatientsFiltered ==
    last.op = "get_patients" =>
        /\ last.raised = ""
        /\ last.docs = IF last.arg THEN {d \in store : d.active} ELSE store

\* The last call constructed pat: through the constructor or through from_json.
PatientConstructed == last.op \in {"PatientRecord", "PatientRecord.from_json"}

\* C13 as stated: every record has last_update >= creation_time, whatever
\* timestamps it was constructed or decoded with and however often it was
\* hidden; last_update equals creation_time when none was passed.
C13_UpdateNotBeforeCreation ==
    /\ pat # NoRecord => pat.last_update >= pat.creation_time
    /\ \A i \in 1..Len(crecs) : crecs[i].last_update >= crecs[i].creation_time
    /\ (PatientConstructed /\ last.last_update = NoneT) => pat.last_update = pat.creation_time

\* C13 amended: a constructed or decoded record has the creation_time it was
\* passed, or the clock reading if it was passed none or 0, and the last_update
\* it was passed, or its creation_time if it was passed none or 0; so
\* last_update >= creation_time exactly when no last_update was passed or the
\* one passed is not earlier than the creation_time.  hide_patient sets
\* last_update to the clock reading and keeps creation_time; so last_update >=
\* creation_time afterwards exactly when creation_time is not later than the
\* reading.
C13_UpdateAsPassedOrStamped ==
    /\ \A i \in 1..Len(crecs) : crecs[i].last_update = crecs[i].creation_time
    /\ PatientConstructed =>
          /\ pat.creation_time = IF TruthyTime(last.creation_time) THEN last.creation_time
                                 ELSE last.t
          /\ pat.last_update = IF TruthyTime(last.last_update) THEN last.last_update
                               ELSE pat.creation_time
          /\ (pat.last_update >= pat.creation_time)
                <=> (~TruthyTime(last.last_update) \/ last.last_update >= pat.creation_time)
    /\ last.op = "hide_patient" =>
          /\ pat.last_update = last.t
          /\ pat.creation_time = last.before.creation_time
          /\ (pat.last_update >= pat.creation_time) <=> (last.before.creation_time <= last.t)

\* C13 witness: a record whose last_update was its creation_time was hidden
\* later, and its last_update is now after its creation_time.
C13_HiddenAfterCreation ==
    /\ last.op = "hide_patient"
    /\ last.before.last_update = last.before.creation_time
    /\ pat.last_update > pat.creation_time

\* C16: hide_patient changes the active flag and last_update of the
\* PatientRecord and of its stored document and nothing else: the record keeps
\* its id, its creation_time and its ehr_records, each with its active flag and
\* last_update, and every other document of the collection is as it was.
C16_HideChangesFlagAndStampOnly ==
    last.op = "hide_patient" =>
        /\ pat = [last.before EXCEPT !.active = FALSE, !.last_update = pat.last_update]
        /\ pat.record_id = last.before.record_id
        /\ pat.creation_time = last.before.creation_time
        /\ pat.ehr_records = last.before.ehr_records
        /\ \A i \in 1..Len(pat.ehr_records) : pat.ehr_records[i] = crecs[i]
        /\ {d \in store : d.id # pat.record_id}
              = {d \in last.store_before : d.id # pat.record_id}
        /\ {d.id : d \in store} = {d.id : d \in last.store_before}
        /\ \A d \in store : d.id = pat.record_id =>
              d = [id |-> pat.record_id, active |-> FALSE, last_update |-> pat.last_update]

\* C16 witness: hide_patient hid an active patient that owns an active clinical
\* record and has a stored document, beside the document of another patient.
C16_HiddenOwnerOfActiveRecord ==
    /\ last.op = "hide_patient"
    /\ last.before.active /\ ~pat.active
    /\ Len(pat.ehr_records) > 0 /\ pat.ehr_records[1].active
    /\ \E d \in last.store_before : d.id = pat.record_id /\ d.active
    /\ \E d \in store : d.id = pat.record_id /\ ~d.active
    /\ \E d \in store : d.id # pat.record_id

---------------------------------------------------------------------------
(* Claims on SpecCodec *)

\* An object carries both reserved keys.
HasBothKeys(o) == o.m["archetype"] # Absent /\ o.m["data"] # Absent

\* An object has the shape of an archetype node: a string under 'archetype',
\* an object under 'data', and no other member.
WellShaped(o) ==
    /\ o.m["archetype"].k = "str"
    /\ o.m["data"].k = "dict"
    /\ \A key \in Keys \ {"archetype", "data"} : o.m[key] = Absent

RECURSIVE TagsAreStrings(_), NoAmbiguousDict(_)
\* Every ArchetypeInstance in v carries a string as its archetype_class.
TagsAreStrings(v) ==
    IF IsInstance(v) THEN v.archetype_class.k = "str" /\ TagsAreStrings(v.data)
    ELSE IF IsDict(v) THEN \A key \in Keys : TagsAreStrings(v.m[key])
    ELSE IF IsList(v) THEN \A i \in 1..Len(v.xs) : TagsAreStrings(v.xs[i])
    ELSE TRUE

\* No plain dict in v, other than the data of an ArchetypeInstance, carries
\* both reserved keys.
NoAmbiguousDict(v) ==
    IF IsInstance(v) THEN \A key \in Keys : NoAmbiguousDict(v.data.m[key])
    ELSE IF IsDict(v) THEN ~HasBothKeys(v) /\ \A key \in Keys : NoAmbiguousDict(v.m[key])
    ELSE IF IsList(v) THEN \A i \in 1..Len(v.xs) : NoAmbiguousDict(v.xs[i])
    ELSE TRUE

\* C5: for a tree built through the constructor (string tags, no plain mapping
\* that carries both reserved keys), to_json completes without error and
\* from_json of its result is the tree again.
C5_TreeRoundTrip ==
    /\ (cres.op = "to_json" /\ cres.orig = Absent
            /\ TagsAreStrings(cres.arg) /\ NoAmbiguousDict(cres.arg))
         => ~IsRaised(cres.out)
    /\ (cres.op = "from_json" /\ cres.orig # Absent
            /\ TagsAreStrings(cres.orig) /\ NoAmbiguousDict(cres.orig))
         => cres.out = cres.orig

\* C6: for a wire object w that from_json accepts, to_json(from_json(w)) is w.
C6_WireRoundTrip ==
    (cres.op = "to_json" /\ cres.orig # Absent) => cres.out = cres.orig

\* C7 as stated: from_json raises exactly when the top-level object lacks a
\* string 'archetype' or an object 'data', whatever the nested values are.
C7_OnlyTopLevelChecked ==
    (cres.op = "from_json" /\ cres.orig = Absent) =>
        (IsRaised(cres.out)
            <=> ~(cres.arg.m["archetype"].k = "str" /\ cres.arg.m["data"].k = "dict"))

RECURSIVE BadEmbedded(_), BadValue(_)
\* x, a field value or sequence element, is or holds an object with both
\* reserved keys that is not well shaped.
BadValue(x) ==
    IF IsDict(x)
    THEN IF HasBothKeys(x)
         THEN IF WellShaped(x) THEN BadEmbedded(x.m["data"]) ELSE TRUE
         ELSE BadEmbedded(x)
    ELSE IF IsList(x) THEN BadEmbedded(x)
    ELSE FALSE

\* Some field value or sequence element of the container v is bad.
BadEmbedded(v) ==
    IF IsDict(v) THEN \E key \in Keys : BadValue(v.m[key])
    ELSE IF IsList(v) THEN \E i \in 1..Len(v.xs) : BadValue(v.xs[i])
    ELSE FALSE

\* C7 amended: from_json raises InvalidJsonStructureError exactly when the
\* top-level object, or an object with both reserved keys found as a field value
\* or sequence element at any depth, is not well shaped (no string 'archetype',
\* no object 'data', or a member besides the two); it raises nothing else.
C7_RejectsIllShapedNodes ==
    (cres.op = "from_json" /\ cres.orig = Absent) =>
        /\ IsRaised(cres.out)
              <=> (IF WellShaped(cres.arg) THEN BadEmbedded(cres.arg.m["data"]) ELSE TRUE)
        /\ IsRaised(cres.out) => cres.out = Raised("InvalidJsonStructureError")

\* C7 witness: a well-shaped top-level object is rejected for an object two
\* levels down, inside a plain mapping, that carries both reserved keys and a
\* type tag that is no string.
C7_NestedRejected ==
    /\ cres.op = "from_json" /\ cres.orig = Absent
    /\ WellShaped(cres.arg)
    /\ IsRaised(cres.out)
    /\ LET inner == cres.arg.m["data"].m["k"] IN
          /\ IsDict(inner) /\ ~HasBothKeys(inner)
          /\ IsDict(inner.m["k"]) /\ HasBothKeys(inner.m["k"])
          /\ inner.m["k"].m["archetype"].k = "num"
          /\ inner.m["k"].m["data"].k = "dict"

RECURSIVE DecodedValue(_, _), DecodedFields(_, _)
\* d is what the JSON value j is decoded as: an embedded node if j is an object
\* with both reserved keys, a plain mapping with the same keys if j is any
\* other object, a sequence of the same length if j is one, j itself otherwise.
DecodedValue(j, d) ==
    IF IsDict(j)
    THEN IF HasBothKeys(j)
         THEN IsInstance(d) /\ d.archetype_class = j.m["archetype"]
                            /\ DecodedFields(j.m["data"], d.data)
         ELSE IsDict(d) /\ DecodedFields(j, d)
    ELSE IF IsList(j)
    THEN IsList(d) /\ Len(d.xs) = Len(j.xs)
                   /\ \A i \in 1..Len(j.xs) : DecodedValue(j.xs[i], d.xs[i])
    ELSE d = j

DecodedFields(j, d) ==
    \A key \in Keys :
        IF j.m[key] = Absent THEN d.m[key] = Absent
        ELSE d.m[key] # Absent /\ DecodedValue(j.m[key], d.m[key])

\* C8: in what from_json returns, every object-valued field value or sequence
\* element, at any depth, is an embedded ArchetypeInstance if and only if it
\* carries both 'archetype' and 'data'; every other object is a plain mapping
\* with the same keys.
C8_EmbeddedIffBothKeys ==
    (cres.op = "from_json" /\ ~IsRaised(cres.out)) =>
        /\ IsInstance(cres.out)
        /\ DecodedFields(cres.arg.m["data"], cres.out.data)

\* C8 witness: a plain mapping in 'data' was decoded as a plain mapping, and the
\* object with both reserved keys inside it as an embedded ArchetypeInstance.
C8_EmbeddedInPlainMapping ==
    /\ cres.op = "from_json" /\ ~IsRaised(cres.out)
    /\ LET inner == cres.arg.m["data"].m["k"] IN
          /\ IsDict(inner) /\ ~HasBothKeys(inner)
          /\ IsDict(inner.m["k"]) /\ HasBothKeys(inner.m["k"])
          /\ IsDict(cres.out.data.m["k"])
          /\ IsInstance(cres.out.data.m["k"].m["k"])

RECURSIVE TagsNonEmpty(_)
\* Every ArchetypeInstance in v carries a non-empty string as its archetype_class.
TagsNonEmpty(v) ==
    IF IsInstance(v)
    THEN /\ v.archetype_class.k = "str"
         /\ v.archetype_class # Str("")
         /\ TagsNonEmpty(v.data)
    ELSE IF IsDict(v) THEN \A key \in Keys : TagsNonEmpty(v.m[key])
    ELSE IF IsList(v) THEN \A i \in 1..Len(v.xs) : TagsNonEmpty(v.xs[i])
    ELSE TRUE

\* C14 as stated: every ArchetypeInstance, at every depth, that the constructor
\* or from_json produced has a non-empty archetype_class.
C14_TagsNonEmpty ==
    /\ TagsNonEmpty(val)
    /\ (cres.op = "from_json" /\ ~IsRaised(cres.out)) => TagsNonEmpty(cres.out)

\* C14 amended: every ArchetypeInstance, at every depth, that from_json
\* produced has a string as its archetype_class, which may be the empty string;
\* a top-level object without a string under 'archetype' is rejected.
C14_DecodedTagsAreStrings ==
    cres.op = "from_json" =>
        /\ ~IsRaised(cres.out) => TagsAreStrings(cres.out)
        /\ cres.arg.m["archetype"].k # "str" => cres.out = Raised("InvalidJsonStructureError")

\* C14 witness: from_json returned a tree with an embedded ArchetypeInstance
\* whose archetype_class is the empty string.
C14_EmptyTagDecoded ==
    /\ cres.op = "from_json" /\ ~IsRaised(cres.out)
    /\ cres.out.archetype_class = Str("a")
    /\ IsInstance(cres.out.data.m["k"])
    /\ cres.out.data.m["k"].archetype_class = Str("")

---------------------------------------------------------------------------
(* Claims on SpecRecords *)

\* C9: two records are equal if and only if they are of the same kind, both ids
\* are present and non-empty, and the ids match, whatever their timestamps,
\* active flags and payloads; != is the negation of ==.
C9_EqualityByKindAndId ==
    rres.op = "eq" =>
        \A i \in 1..Len(recs), j \in 1..Len(recs) :
            /\ rres.out[i][j].eq <=> /\ recs[i].kind = recs[j].kind
                                     /\ recs[i].record_id \notin {None, ""}
                                     /\ recs[j].record_id \notin {None, ""}
                                     /\ recs[i].record_id = recs[j].record_id
            /\ rres.out[i][j].ne <=> ~rres.out[i][j].eq

\* C9 witness: two clinical records with the same id were found equal although
\* their timestamps, active flags and payloads differ.
C9_EqualDespiteFields ==
    /\ rres.op = "eq"
    /\ Len(recs) >= 2
    /\ rres.out[1][2].eq
    /\ IsClinical(recs[1]) /\ IsClinical(recs[2])
    /\ recs[1].active # recs[2].active
    /\ recs[1].last_update # recs[2].last_update
    /\ recs[1].creation_time # recs[2].creation_time
    /\ recs[1].ehr_data # recs[2].ehr_data

\* C10: ClinicalRecord.to_json returns a dict that has the id member exactly
\* when the record's id is present; PatientRecord.to_json returns a dict that
\* always has the id member and an 'ehr_records' list with the encodings of the
\* owned clinical records in order.
C10_IdMemberAndRecordList ==
    rres.op = "to_json" =>
        \A i \in 1..Len(recs) :
            /\ ~IsRaised(rres.out[i])
            /\ IF IsClinical(recs[i])
               THEN "record_id" \in rres.out[i].members
                        <=> recs[i].record_id \notin {None, ""}
               ELSE /\ {"record_id", "ehr_records"} \subseteq rres.out[i].members
                    /\ Len(rres.out[i].ehr_records) = Len(recs[i].ehr_records)
                    /\ \A n \in 1..Len(recs[i].ehr_records) :
                          rres.out[i].ehr_records[n]
                              = ClinicalRecord_to_json(recs[i].ehr_records[n])

---------------------------------------------------------------------------
(* Claims on SpecWire *)

\* The members of a patient's JSON form other than the list are each absent
\* or of the type the Schema names, and there is no further member.
OtherMembersWellTyped(w) ==
    /\ Optional(w, "record_id", "str")
    /\ Optional(w, "creation_time", "float")
    /\ Optional(w, "last_update", "float")
    /\ Optional(w, "active", "bool")
    /\ w["ehr_data"] = Absent /\ w["k"] = Absent

\* r is what ClinicalRecord.from_json returns for ehr, at some clock reading
\* and with some generated identifier.
IsDecodeOf(r, ehr) ==
    \E t \in 0..MaxTime, n \in 1..(MaxEhr + 1) :
        ClinicalRecord_from_json(ehr, t, uuid4(n)) = Returned(r)

\* C11: PatientRecord.from_json raises InvalidJsonStructureError when the
\* 'ehr_records' member is absent or is no list, and raises nothing else for any
\* input; when the other members are absent or well-typed and every element of
\* the list decodes, it returns a patient whose ehr_records are the decodes of
\* the elements in order (none for an empty list).
C11_PatientDecode ==
    cres.op = "PatientRecord.from_json" =>
        /\ cres.arg["ehr_records"].k # "list"
              => cres.out = Raised("InvalidJsonStructureError")
        /\ IsRaised(cres.out) => cres.out = Raised("InvalidJsonStructureError")
        /\ ( /\ cres.arg["ehr_records"].k = "list"
             /\ OtherMembersWellTyped(cres.arg)
             /\ \A i \in 1..Len(cres.arg["ehr_records"].xs) :
                    \E r \in {ClinicalRecord_from_json(cres.arg["ehr_records"].xs[i], 0, "u1")} :
                        ~IsRaised(r) )
              => /\ ~IsRaised(cres.out)
                 /\ Len(cres.out.v.ehr_records) = Len(cres.arg["ehr_records"].xs)
                 /\ \A i \in 1..Len(cres.arg["ehr_records"].xs) :
                        IsDecodeOf(cres.out.v.ehr_records[i], cres.arg["ehr_records"].xs[i])

---------------------------------------------------------------------------
(* Claims on SpecRenew *)

\* The record new_record_id was last called on, as it is now.
Renewed == recs[rres.out[1].i]

\* C12 as stated: new_record_id on a record of either kind leaves it with a
\* newly generated, non-empty id different from the one it had, and changes no
\* other attribute.
C12_RenewedIdIsFresh ==
    rres.op = "new_record_id" =>
        /\ Renewed.record_id # rres.out[1].before.record_id
        /\ Renewed.record_id \notin {None, ""}
        /\ Renewed = [rres.out[1].before EXCEPT !.record_id = Renewed.record_id]

\* C12 amended: new_record_id on a ClinicalRecord leaves it with the identifier
\* uuid4() has just generated, non-empty and different from the one it had and
\* from the id of every other record, and changes no other attribute;
\* new_record_id on a PatientRecord changes nothing, the id included.
C12_ClinicalIdRenewedPatientIdKept ==
    rres.op = "new_record_id" =>
        IF IsClinical(rres.out[1].before)
        THEN /\ Renewed.record_id = uuid4(uuids)
             /\ Renewed.record_id # rres.out[1].before.record_id
             /\ Renewed.record_id \notin {None, ""}
             /\ \A j \in 1..Len(recs) : j # rres.out[1].i => recs[j].record_id # Renewed.record_id
             /\ Renewed = [rres.out[1].before EXCEPT !.record_id = Renewed.record_id]
        ELSE Renewed = rres.out[1].before

\* C12 witness: new_record_id replaced the id a caller had given a
\* ClinicalRecord, and the caller also holds a PatientRecord.
C12_ClinicalRenewed ==
    /\ rres.op = "new_record_id"
    /\ IsClinical(rres.out[1].before)
    /\ rres.out[1].before.record_id = "p1"
    /\ Renewed.record_id # "p1"
    /\ \E j \in 1..Len(recs) : ~IsClinical(recs[j])

---------------------------------------------------------------------------
(* Claims on SpecLoader *)

RECURSIVE SumOfAssigned(_)
\* The sum of the matching counts handed to the first n processes.
SumOfAssigned(n) == IF n = 0 THEN 0 ELSE loaders[n - 1].assigned + SumOfAssigned(n - 1)

\* C15: when run has built the dataset on a clean store with matching_instances
\* <= patients_size, the patients holding a matching record are
\* matching_instances many: the counts handed to the processes sum to
\* matching_instances, every patient was saved by the one process whose index
\* is x mod threads, and every process created as many matching patients as it
\* was handed.
C15_MatchingPatientsCount ==
    (phase \notin {"run", "build_dataset"} /\ conf.matching_instances <= conf.patients_size) =>
        /\ phase = "returned"
        /\ Cardinality(patient_count_results) = conf.matching_instances
        /\ SumOfAssigned(conf.threads) = conf.matching_instances
        /\ \A p \in patients : p.by = p.x % conf.threads
        /\ \A i \in 0..(conf.threads - 1) :
              Cardinality({p \in patients : p.match /\ p.by = i}) = loaders[i].assigned

====
